---- MODULE Spec2Model ----
(***************************************************************************)
(* Model of pkg/otlp/model/translator/consumer.go: the MetricDataType text *)
(* codec (UnmarshalText / MarshalText) and the consumer interfaces         *)
(* (Consumer and the optional HostConsumer / TagsConsumer).                *)
(***************************************************************************)
EXTENDS Integers, Sequences, FiniteSets, TLC

(* ------------------------------ bounds -------------------------------- *)

\* MetricDataType is an int; the model draws ordinals from
\* -MaxOrdinal..MaxOrdinal and the ordinal 99.
MaxOrdinal == 2

\* Longest sequence of calls made on one variable / in one translation pass.
MaxCalls == 3

(* --------------------------- MetricDataType --------------------------- *)

Gauge == 0

Count == 1

Ordinals == (-MaxOrdinal .. MaxOrdinal) \cup {99}

\* A []byte: the nil slice, or a slice holding the bytes of a string.
NilBytes == [isnil |-> TRUE, data |-> ""]

Bytes(s) == [isnil |-> FALSE, data |-> s]

\* string(text): the nil slice converts to the empty string.
String(b) == b.data

\* The error value nil.
NilError == [format |-> "<nil>", arg |-> ""]

\* fmt.Errorf(format, arg) with the argument already rendered as text.
Errorf(format, arg) == [format |-> format, arg |-> arg]

\* Texts handed to UnmarshalText.
Texts == {"gauge", "count", "GAUGE", "Gauge", "COUNT", "", " gauge", "gauge ", "counter"}

(* ------------------------------ state --------------------------------- *)

VARIABLES
    t,          \* a variable of type MetricDataType (the receiver of the calls)
    buf,        \* the []byte last passed to UnmarshalText or returned by MarshalText
    src,        \* <<v>> when buf was returned by MarshalText on v, <<>> otherwise
    err,        \* the error returned by the last call
    op,         \* the last operation on t
    pre,        \* the value of t before the last operation
    t0,         \* the value t was initialised with
    log,        \* the texts handed to UnmarshalText on t, in call order
    sink,       \* the method set of the sink's type
    consumer,   \* <<m>> once a sink with method set m is held as a Consumer
    sent,       \* the ConsumeTimeSeries calls made in this pass, in call order
    recorded,   \* what the recording sink observed
    sketches,   \* number of ConsumeSketch calls made
    stats,      \* number of ConsumeAPMStats calls made
    hostProbe,  \* result of the consumer.(HostConsumer) probe
    tagProbe,   \* result of the consumer.(TagsConsumer) probe
    invoked     \* the optional methods invoked on the consumer

codecVars == <<t, buf, src, err, op, pre, t0, log>>

passVars == <<sink, consumer, sent, recorded, sketches, stats, hostProbe, tagProbe, invoked>>

vars == <<t, buf, src, err, op, pre, t0, log,
          sink, consumer, sent, recorded, sketches, stats, hostProbe, tagProbe, invoked>>

(* --------------------------- UnmarshalText ---------------------------- *)

\* Variant: tokens are matched without regard to case.
UnmarshalTextFoldCase(tv, text) ==
    CASE String(text) \in {"gauge", "GAUGE", "Gauge"} -> [t |-> Gauge, err |-> NilError]
      [] String(text) \in {"count", "COUNT"}          -> [t |-> Count, err |-> NilError]
      [] OTHER -> [t |-> tv, err |-> Errorf("invalid metric data type %q", String(text))]

\* Variant: both tokens store Gauge.
UnmarshalTextAlwaysGauge(tv, text) ==
    CASE String(text) = "gauge" -> [t |-> Gauge, err |-> NilError]
      [] String(text) = "count" -> [t |-> Gauge, err |-> NilError]
      [] OTHER -> [t |-> tv, err |-> Errorf("invalid metric data type %q", String(text))]

\* Variant: "count" stores the ordinal after Count.
UnmarshalTextOffByOne(tv, text) ==
    CASE String(text) = "gauge" -> [t |-> Gauge, err |-> NilError]
      [] String(text) = "count" -> [t |-> Count + 1, err |-> NilError]
      [] OTHER -> [t |-> tv, err |-> Errorf("invalid metric data type %q", String(text))]

\* Variant: the default branch resets the target to the zero value.
UnmarshalTextResets(tv, text) ==
    CASE String(text) = "gauge" -> [t |-> Gauge, err |-> NilError]
      [] String(text) = "count" -> [t |-> Count, err |-> NilError]
      [] OTHER -> [t |-> 0, err |-> Errorf("invalid metric data type %q", String(text))]

\* func (t *MetricDataType) UnmarshalText(text []byte) error, called on a
\* variable holding tv: the value of the variable after the call, and the
\* error returned.
UnmarshalText(tv, text) ==
    CASE String(text) = "gauge" -> [t |-> Gauge, err |-> NilError]
      [] String(text) = "count" -> [t |-> Count, err |-> NilError]
      [] OTHER -> [t |-> tv, err |-> Errorf("invalid metric data type %q", String(text))]

(* ---------------------------- MarshalText ----------------------------- *)

\* Variant: the two tokens are exchanged.
MarshalTextSwapped(tv) ==
    CASE tv = Gauge -> [text |-> Bytes("count"), err |-> NilError, t |-> tv]
      [] tv = Count -> [text |-> Bytes("gauge"), err |-> NilError, t |-> tv]
      [] OTHER -> [text |-> NilBytes,
                   err |-> Errorf("invalid metric data type %d", ToString(tv)), t |-> tv]

\* Variant: an ordinal outside the switch is encoded as "gauge".
MarshalTextDefaultsToGauge(tv) ==
    CASE tv = Gauge -> [text |-> Bytes("gauge"), err |-> NilError, t |-> tv]
      [] tv = Count -> [text |-> Bytes("count"), err |-> NilError, t |-> tv]
      [] OTHER -> [text |-> Bytes("gauge"), err |-> NilError, t |-> tv]

\* Variant: Count is encoded as "counter".
MarshalTextCounter(tv) ==
    CASE tv = Gauge -> [text |-> Bytes("gauge"), err |-> NilError, t |-> tv]
      [] tv = Count -> [text |-> Bytes("counter"), err |-> NilError, t |-> tv]
      [] OTHER -> [text |-> NilBytes,
                   err |-> Errorf("invalid metric data type %d", ToString(tv)), t |-> tv]

\* func (t MetricDataType) MarshalText() ([]byte, error), called on a
\* variable holding tv: the text and error returned, and the value of the
\* variable after the call (the receiver is passed by value).
MarshalText(tv) ==
    CASE tv = Gauge -> [text |-> Bytes("gauge"), err |-> NilError, t |-> tv]
      [] tv = Count -> [text |-> Bytes("count"), err |-> NilError, t |-> tv]
      [] OTHER -> [text |-> NilBytes,
                   err |-> Errorf("invalid metric data type %d", ToString(tv)), t |-> tv]

(* --------------------------- codec actions ---------------------------- *)

\* t = MetricDataType(n): the type is an int, any ordinal can be stored.
Assign ==
    \E n \in Ordinals :
        /\ t' = n
        /\ pre' = t
        /\ op' = "Assign"
        /\ err' = NilError
        /\ UNCHANGED <<buf, src, t0, log>>
        /\ UNCHANGED passVars

\* The effect of t.UnmarshalText(b) on the variable and the returned error.
DoUnmarshalText(b) ==
    LET r == UnmarshalText(t, b) IN
        /\ t' = r.t
        /\ err' = r.err
        /\ pre' = t
        /\ buf' = b

\* t.UnmarshalText(text) with a text read from configuration.
CallUnmarshalText ==
    \E s \in Texts :
        /\ DoUnmarshalText(Bytes(s))
        /\ src' = <<>>
        /\ op' = "UnmarshalText"
        /\ UNCHANGED <<t0, log>>
        /\ UNCHANGED passVars

\* t.UnmarshalText(text) with the []byte the last MarshalText returned.
CallUnmarshalEncoded ==
    /\ src # <<>>
    /\ DoUnmarshalText(buf)
    /\ op' = "UnmarshalEncoded"
    /\ UNCHANGED <<src, t0, log>>
    /\ UNCHANGED passVars

\* text, err := t.MarshalText()
CallMarshalText ==
    LET r == MarshalText(t) IN
        /\ buf' = r.text
        /\ err' = r.err
        /\ t' = r.t
        /\ pre' = t
        /\ src' = <<t>>
        /\ op' = "MarshalText"
        /\ UNCHANGED <<t0, log>>
        /\ UNCHANGED passVars

\* A sequence of UnmarshalText calls on one variable, each text logged.
LoggedUnmarshalText ==
    \E s \in Texts :
        /\ Len(log) < MaxCalls
        /\ DoUnmarshalText(Bytes(s))
        /\ log' = Append(log, s)
        /\ src' = <<>>
        /\ op' = "UnmarshalText"
        /\ UNCHANGED t0
        /\ UNCHANGED passVars

\* No sink, no pass in progress.
PassIdle ==
    /\ sink = {}
    /\ consumer = <<>>
    /\ sent = <<>>
    /\ recorded = <<>>
    /\ sketches = 0
    /\ stats = 0
    /\ hostProbe = "unprobed"
    /\ tagProbe = "unprobed"
    /\ invoked = {}

\* A MetricDataType variable holding any ordinal, no call made yet.
Init ==
    /\ t \in Ordinals
    /\ t0 = t
    /\ pre = t
    /\ buf = NilBytes
    /\ src = <<>>
    /\ err = NilError
    /\ op = "init"
    /\ log = <<>>
    /\ PassIdle

Next ==
    \/ Assign
    \/ CallUnmarshalText
    \/ CallUnmarshalEncoded
    \/ CallMarshalText

Spec == Init /\ [][Next]_vars

\* A MetricDataType variable declared (zero value Gauge) or set to Count,
\* then only decoded into.
InitDecode ==
    /\ t \in {Gauge, Count}
    /\ t0 = t
    /\ pre = t
    /\ buf = NilBytes
    /\ src = <<>>
    /\ err = NilError
    /\ op = "init"
    /\ log = <<>>
    /\ PassIdle

NextDecode == LoggedUnmarshalText

SpecDecode == InitDecode /\ [][NextDecode]_vars

(* --------------------------- codec properties ------------------------- *)

\* The error is the invalid-metric-type error of either direction.
IsInvalidMetricType(e) ==
    e.format \in {"invalid metric data type %q", "invalid metric data type %d"}

\* The last operation was an UnmarshalText call.
Decoded == op \in {"UnmarshalText", "UnmarshalEncoded"}

\* C1: round trip. MarshalText on Gauge or Count succeeds, and UnmarshalText
\* of the returned text succeeds and leaves the target equal to the encoded
\* variant, whatever the target held before the call.
RoundTrip ==
    /\ (op = "MarshalText" /\ src[1] \in {Gauge, Count}) =>
           (err = NilError /\ ~buf.isnil)
    /\ (op = "UnmarshalEncoded" /\ src[1] \in {Gauge, Count}) =>
           (err = NilError /\ t = src[1])

\* C1 witness: Count was encoded, the target then held the out-of-range
\* ordinal 99, and decoding the encoded text set it to Count.
RoundTripWitness ==
    /\ op = "UnmarshalEncoded"
    /\ src = <<Count>>
    /\ pre = 99
    /\ t = Count

\* C2: UnmarshalText accepts exactly "gauge" and "count"; every other text
\* fails with the invalid-metric-type error.
DecodeRecognizesExactlyTwoTokens ==
    Decoded =>
        /\ String(buf) \in {"gauge", "count"} => err = NilError
        /\ String(buf) \notin {"gauge", "count"} => IsInvalidMetricType(err)

\* C2 witness: the upper-case text "GAUGE" was rejected.
DecodeRejectsUpperCaseWitness ==
    /\ op = "UnmarshalText"
    /\ buf = Bytes("GAUGE")
    /\ IsInvalidMetricType(err)

\* C3: MarshalText on an ordinal other than Gauge and Count fails with the
\* invalid-metric-type error and returns no text.
EncodeRejectsOutOfRange ==
    (op = "MarshalText" /\ src[1] \notin {Gauge, Count}) =>
        (IsInvalidMetricType(err) /\ buf = NilBytes)

\* C3 witness: MarshalText was called on the ordinal 99 and failed.
EncodeRejects99Witness ==
    /\ op = "MarshalText"
    /\ src = <<99>>
    /\ IsInvalidMetricType(err)
    /\ buf = NilBytes

\* C4: MarshalText returns exactly "gauge" for Gauge and "count" for Count,
\* with no error, and leaves the value it was called on unchanged.
EncodeTokens ==
    /\ (op = "MarshalText" /\ pre = Gauge) =>
           (buf = Bytes("gauge") /\ err = NilError /\ t = pre)
    /\ (op = "MarshalText" /\ pre = Count) =>
           (buf = Bytes("count") /\ err = NilError /\ t = pre)
    /\ op = "MarshalText" => t = pre

\* C4 witness: Count was encoded as "count" and the variable still holds Count.
EncodeCountWitness ==
    /\ op = "MarshalText"
    /\ pre = Count
    /\ t = Count
    /\ buf = Bytes("count")

\* C5: UnmarshalText of "gauge" succeeds and stores Gauge, of "count"
\* succeeds and stores Count, whatever the target held before.
DecodeTokens ==
    /\ (Decoded /\ String(buf) = "gauge") => (err = NilError /\ t = Gauge)
    /\ (Decoded /\ String(buf) = "count") => (err = NilError /\ t = Count)

\* C5 witness: a target holding the out-of-range ordinal 99 decoded "gauge".
DecodeOverwritesOutOfRangeWitness ==
    /\ op = "UnmarshalText"
    /\ buf = Bytes("gauge")
    /\ pre = 99
    /\ t = Gauge
    /\ err = NilError

\* The variant a token stands for.
TokenVariant(s) == IF s = "gauge" THEN Gauge ELSE Count

\* The value a variable initialised to v holds after the texts of l were
\* decoded into it in order: the variant of the last accepted token, or v.
RECURSIVE LastAccepted(_, _)
LastAccepted(v, l) ==
    IF l = <<>> THEN v
    ELSE IF l[Len(l)] \in {"gauge", "count"} THEN TokenVariant(l[Len(l)])
    ELSE LastAccepted(v, SubSeq(l, 1, Len(l) - 1))

\* C9: a variable that starts at Gauge or Count holds only Gauge or Count
\* after any sequence of UnmarshalText calls, and equals the variant of the
\* most recent accepted token (its initial value when none was accepted).
OnlyDeclaredVariants ==
    /\ t \in {Gauge, Count}
    /\ t = LastAccepted(t0, log)

\* C9 witness: starting at Gauge, "count" was accepted and two rejected
\* texts followed; the variable holds Count.
OnlyDeclaredVariantsWitness ==
    /\ t0 = Gauge
    /\ log = <<"count", "GAUGE", "">>
    /\ t = Count
    /\ IsInvalidMetricType(err)

\* C10: a failing UnmarshalText leaves its target with the value it had
\* before the call.
FailedDecodeKeepsTarget ==
    (Decoded /\ err # NilError) => t = pre

\* C10 witness: a target holding Count rejected "counter" and still holds
\* Count.
FailedDecodeKeepsCountWitness ==
    /\ op = "UnmarshalText"
    /\ buf = Bytes("counter")
    /\ err # NilError
    /\ pre = Count
    /\ t = Count

(* ------------------------ consumer interfaces ------------------------- *)

\* An interface is the set of the methods it declares; a type is the set
\* of the methods it provides.
TimeSeriesConsumer == {"ConsumeTimeSeries"}

SketchConsumer == {"ConsumeSketch"}

APMStatsConsumer == {"ConsumeAPMStats"}

\* Variant: the interface declares no method.
HostConsumerNoMethod == {}

HostConsumer == {"ConsumeHost"}

TagsConsumer == {"ConsumeTag"}

\* Variant: APMStatsConsumer is not embedded.
ConsumerWithoutAPMStats == TimeSeriesConsumer \cup SketchConsumer

\* Consumer embeds the three mandatory interfaces.
Consumer == TimeSeriesConsumer \cup SketchConsumer \cup APMStatsConsumer

Methods ==
    TimeSeriesConsumer \cup SketchConsumer \cup APMStatsConsumer
        \cup HostConsumer \cup TagsConsumer

\* A type with method set m satisfies an interface when it provides every
\* method the interface declares; this is also the result of the probe
\* consumer.(iface).
Implements(m, iface) == iface \subseteq m

(* -------------------------- translation pass -------------------------- *)

Dims == {"dimsA", "dimsB"}

\* (timestamp, value) pairs of the observations.
Observations == {<<100, 1>>, <<100, 2>>, <<200, 3>>}

\* The arguments of one ConsumeTimeSeries call.
Points ==
    {[dimensions |-> d, typ |-> ty, timestamp |-> o[1], value |-> o[2]] :
        d \in Dims, ty \in {Gauge, Count}, o \in Observations}

\* Mandatory calls made so far in this pass.
CallsMade == Len(sent) + sketches + stats

\* Variant: the recording sink skips a point equal to one it already holds.
RecordDeduplicating(rec, p) ==
    IF \E i \in 1..Len(rec) : rec[i] = p THEN rec ELSE Append(rec, p)

\* The recording sink's ConsumeTimeSeries: the tuple is appended to what it
\* has observed.
Record(rec, p) == Append(rec, p)

\* The translator is handed the sink as a Consumer; only a type providing
\* the methods of Consumer can be passed.
Attach ==
    /\ consumer = <<>>
    /\ Implements(sink, Consumer)
    /\ consumer' = <<sink>>
    /\ UNCHANGED <<sink, sent, recorded, sketches, stats, hostProbe, tagProbe, invoked>>
    /\ UNCHANGED codecVars

\* consumer.ConsumeTimeSeries(ctx, dimensions, typ, timestamp, value)
ConsumeTimeSeries ==
    \E p \in Points :
        /\ consumer # <<>>
        /\ CallsMade < MaxCalls
        /\ sent' = Append(sent, p)
        /\ recorded' = Record(recorded, p)
        /\ UNCHANGED <<sink, consumer, sketches, stats, hostProbe, tagProbe, invoked>>
        /\ UNCHANGED codecVars

\* consumer.ConsumeSketch(ctx, dimensions, timestamp, sketch)
ConsumeSketch ==
    /\ consumer # <<>>
    /\ CallsMade < MaxCalls
    /\ sketches' = sketches + 1
    /\ UNCHANGED <<sink, consumer, sent, recorded, stats, hostProbe, tagProbe, invoked>>
    /\ UNCHANGED codecVars

\* consumer.ConsumeAPMStats(payload)
ConsumeAPMStats ==
    /\ consumer # <<>>
    /\ CallsMade < MaxCalls
    /\ stats' = stats + 1
    /\ UNCHANGED <<sink, consumer, sent, recorded, sketches, hostProbe, tagProbe, invoked>>
    /\ UNCHANGED codecVars

\* _, ok := consumer.(HostConsumer), once per session.
ProbeHost ==
    /\ consumer # <<>>
    /\ hostProbe = "unprobed"
    /\ hostProbe' = IF Implements(consumer[1], HostConsumer)
                    THEN "supported" ELSE "not supported"
    /\ UNCHANGED <<sink, consumer, sent, recorded, sketches, stats, tagProbe, invoked>>
    /\ UNCHANGED codecVars

\* _, ok := consumer.(TagsConsumer), once per session.
ProbeTag ==
    /\ consumer # <<>>
    /\ tagProbe = "unprobed"
    /\ tagProbe' = IF Implements(consumer[1], TagsConsumer)
                   THEN "supported" ELSE "not supported"
    /\ UNCHANGED <<sink, consumer, sent, recorded, sketches, stats, hostProbe, invoked>>
    /\ UNCHANGED codecVars

\* ConsumeHost(host), only after a positive probe.
ConsumeHost ==
    /\ hostProbe = "supported"
    /\ "ConsumeHost" \notin invoked
    /\ invoked' = invoked \cup {"ConsumeHost"}
    /\ UNCHANGED <<sink, consumer, sent, recorded, sketches, stats, hostProbe, tagProbe>>
    /\ UNCHANGED codecVars

\* ConsumeTag(tag), only after a positive probe.
ConsumeTag ==
    /\ tagProbe = "supported"
    /\ "ConsumeTag" \notin invoked
    /\ invoked' = invoked \cup {"ConsumeTag"}
    /\ UNCHANGED <<sink, consumer, sent, recorded, sketches, stats, hostProbe, tagProbe>>
    /\ UNCHANGED codecVars

\* A sink type with any set of the five methods; no pass started.
InitPass ==
    /\ sink \in SUBSET Methods
    /\ consumer = <<>>
    /\ sent = <<>>
    /\ recorded = <<>>
    /\ sketches = 0
    /\ stats = 0
    /\ hostProbe = "unprobed"
    /\ tagProbe = "unprobed"
    /\ invoked = {}
    /\ t = Gauge
    /\ t0 = Gauge
    /\ pre = Gauge
    /\ buf = NilBytes
    /\ src = <<>>
    /\ err = NilError
    /\ op = "init"
    /\ log = <<>>

NextPass ==
    \/ Attach
    \/ ConsumeTimeSeries
    \/ ConsumeSketch
    \/ ConsumeAPMStats
    \/ ProbeHost
    \/ ProbeTag
    \/ ConsumeHost
    \/ ConsumeTag

SpecPass == InitPass /\ [][NextPass]_vars

(* -------------------------- pass properties --------------------------- *)

\* C6: call order is preserved. The recording sink holds exactly the tuples
\* of the ConsumeTimeSeries calls made, in call order, none dropped,
\* deduplicated or reordered.
CallOrderPreserved == recorded = sent

\* C6 witness: the sink observed (dimsA, Gauge, 100, 1), (dimsA, Count,
\* 100, 2), (dimsB, Gauge, 200, 3) in that order.
CallOrderWitness ==
    recorded =
        << [dimensions |-> "dimsA", typ |-> Gauge, timestamp |-> 100, value |-> 1],
           [dimensions |-> "dimsA", typ |-> Count, timestamp |-> 100, value |-> 2],
           [dimensions |-> "dimsB", typ |-> Gauge, timestamp |-> 200, value |-> 3] >>

\* C7: optional capabilities are never assumed. On a Consumer whose type
\* lacks ConsumeHost (ConsumeTag) the probe never reports "supported" and
\* the method is never invoked; a negative probe leaves the mandatory
\* calls enabled.
OptionalNeverAssumed ==
    consumer # <<>> =>
        /\ "ConsumeHost" \notin consumer[1] =>
               (hostProbe \in {"unprobed", "not supported"} /\ "ConsumeHost" \notin invoked)
        /\ "ConsumeTag" \notin consumer[1] =>
               (tagProbe \in {"unprobed", "not supported"} /\ "ConsumeTag" \notin invoked)
        /\ (hostProbe = "not supported" \/ tagProbe = "not supported") =>
               (CallsMade < MaxCalls =>
                    (ENABLED ConsumeTimeSeries /\ ENABLED ConsumeSketch
                        /\ ENABLED ConsumeAPMStats))

\* C7 witness: a Consumer with only the three mandatory methods was probed
\* for both capabilities, both probes were negative, and a time series was
\* consumed afterwards.
OptionalNeverAssumedWitness ==
    /\ consumer = <<{"ConsumeTimeSeries", "ConsumeSketch", "ConsumeAPMStats"}>>
    /\ hostProbe = "not supported"
    /\ tagProbe = "not supported"
    /\ invoked = {}
    /\ Len(recorded) > 0

\* C8: a sink qualifies as a Consumer exactly when it provides
\* ConsumeTimeSeries, ConsumeSketch and ConsumeAPMStats; ConsumeHost and
\* ConsumeTag make no difference; only a qualifying sink is ever held as a
\* Consumer.
ConsumerIffAllMandatory ==
    /\ Implements(sink, Consumer) <=>
           {"ConsumeTimeSeries", "ConsumeSketch", "ConsumeAPMStats"} \subseteq sink
    /\ Implements(sink, Consumer) <=>
           Implements(sink \ {"ConsumeHost", "ConsumeTag"}, Consumer)
    /\ Implements(sink, Consumer) <=>
           Implements(sink \cup {"ConsumeHost", "ConsumeTag"}, Consumer)
    /\ consumer # <<>> =>
           {"ConsumeTimeSeries", "ConsumeSketch", "ConsumeAPMStats"} \subseteq consumer[1]
    /\ (consumer = <<>> /\ ENABLED Attach) <=>
           (consumer = <<>> /\
                {"ConsumeTimeSeries", "ConsumeSketch", "ConsumeAPMStats"} \subseteq sink)

\* C8 witness: a sink providing the three mandatory methods and ConsumeTag,
\* but not ConsumeHost, is held as a Consumer.
ConsumerIffAllMandatoryWitness ==
    consumer = <<{"ConsumeTimeSeries", "ConsumeSketch", "ConsumeAPMStats", "ConsumeTag"}>>

====
